---- MODULE Spec2Model ----
(***************************************************************************)
(* Model of the job-listing JSON validator (main.py).                      *)
(*                                                                         *)
(* A Python str is a sequence of one-character strings.  A JSON value is   *)
(* a tagged record: JStr, JNum, JBool, JNull, JList, JDict.  A dict keeps  *)
(* its keys in insertion order, as Python's dict does.                     *)
(***************************************************************************)
EXTENDS Integers, Sequences, FiniteSets, TLC

VARIABLES input, pc, fixed, refixed, residual, response

vars == <<input, pc, fixed, refixed, residual, response>>

-----------------------------------------------------------------------------
(* JSON values *)

JStr(chars) == [kind |-> "str", chars |-> chars]
JNum(n) == [kind |-> "num", num |-> n]
JBool(b) == [kind |-> "bool", bool |-> b]
JNull == [kind |-> "null"]
JList(items) == [kind |-> "list", items |-> items]
JDict(keys, vals) == [kind |-> "dict", keys |-> keys, vals |-> vals]

-----------------------------------------------------------------------------
(* MARKDOWN_LINK_PATTERN = \[([^\]]+)\]\((https?://[^)]+)\) *)

SchemeHttp == <<"h", "t", "t", "p", ":", "/", "/">>
SchemeHttps == <<"h", "t", "t", "p", "s", ":", "/", "/">>

\* text[at..] starts with the literal lit
HasAt(text, at, lit) ==
    /\ at >= 1
    /\ at + Len(lit) - 1 <= Len(text)
    /\ \A k \in 1..Len(lit) : text[at + k - 1] = lit[k]

\* index of the first c at or after from, 0 when there is none
IndexFrom(text, c, from) ==
    LET hits == {k \in from..Len(text) : text[k] = c}
    IN  IF hits = {} THEN 0 ELSE CHOOSE k \in hits : \A j \in hits : k <= j

NoMatch == [start |-> 0, close |-> 0, urlAt |-> 0, stop |-> 0]

\* MatchAt with the label written [^\]]* : an empty label matches
MatchAt_empty_label(text, i) ==
    IF i < 1 \/ i > Len(text) THEN NoMatch
    ELSE IF text[i] # "[" THEN NoMatch
    ELSE LET close == IndexFrom(text, "]", i + 1) IN
         IF close < i + 1 THEN NoMatch
         ELSE IF ~HasAt(text, close + 1, <<"(">>) THEN NoMatch
         ELSE LET body == IF HasAt(text, close + 2, SchemeHttps)
                            THEN close + 2 + Len(SchemeHttps)
                          ELSE IF HasAt(text, close + 2, SchemeHttp)
                            THEN close + 2 + Len(SchemeHttp)
                          ELSE 0
              IN  IF body = 0 THEN NoMatch
                  ELSE LET stop == IndexFrom(text, ")", body) IN
                       IF stop <= body THEN NoMatch
                       ELSE [start |-> i, close |-> close,
                             urlAt |-> close + 2, stop |-> stop]

\* The match of the pattern that starts at index i, or NoMatch.  The label
\* [^\]]+ runs to the first "]", the URL body [^)]+ to the first ")"; both
\* need at least one character.  start is the "[", close the "]", urlAt the
\* first character of group 2 and stop the final ")".
MatchAt(text, i) ==
    IF i < 1 \/ i > Len(text) THEN NoMatch
    ELSE IF text[i] # "[" THEN NoMatch
    ELSE LET close == IndexFrom(text, "]", i + 1) IN
         IF close < i + 2 THEN NoMatch
         ELSE IF ~HasAt(text, close + 1, <<"(">>) THEN NoMatch
         ELSE LET body == IF HasAt(text, close + 2, SchemeHttps)
                            THEN close + 2 + Len(SchemeHttps)
                          ELSE IF HasAt(text, close + 2, SchemeHttp)
                            THEN close + 2 + Len(SchemeHttp)
                          ELSE 0
              IN  IF body = 0 THEN NoMatch
                  ELSE LET stop == IndexFrom(text, ")", body) IN
                       IF stop <= body THEN NoMatch
                       ELSE [start |-> i, close |-> close,
                             urlAt |-> close + 2, stop |-> stop]

\* pattern.search(text, pos): the leftmost match starting at or after pos
SearchFrom(text, pos) ==
    LET starts == {i \in pos..Len(text) :
                      text[i] = "[" /\ MatchAt(text, i).start # 0}
    IN  IF starts = {} THEN NoMatch
        ELSE MatchAt(text, CHOOSE i \in starts : \A j \in starts : i <= j)

pattern_search(text) == SearchFrom(text, 1)

\* match.group(1) and match.group(2)
Group1(text, m) == SubSeq(text, m.start + 1, m.close - 1)
Group2(text, m) == SubSeq(text, m.urlAt, m.stop - 1)

-----------------------------------------------------------------------------
(* Utility functions *)

\* extract_plain_url replacing the first link in place, the rest kept
extract_plain_url_first_only(text) ==
    LET match == pattern_search(text)
    IN  IF match.start # 0
        THEN SubSeq(text, 1, match.start - 1) \o Group2(text, match)
               \o SubSeq(text, match.stop + 1, Len(text))
        ELSE text

\* extract_plain_url returning group 1, the label
extract_plain_url_label(text) ==
    LET match == pattern_search(text)
    IN  IF match.start # 0 THEN Group1(text, match) ELSE text

extract_plain_url(text) ==
    LET match == pattern_search(text)
    IN  IF match.start # 0 THEN Group2(text, match) ELSE text

AnchorOpen == <<"<", "a", " ", "h", "r", "e", "f", "=", "\"">>
AnchorAttrs ==
    <<"\"", " ", "t", "a", "r", "g", "e", "t", "=", "\"", "_", "b", "l", "a",
      "n", "k", "\"", " ", "r", "e", "l", "=", "\"", "n", "o", "o", "p", "e",
      "n", "e", "r", " ", "n", "o", "r", "e", "f", "e", "r", "r", "e", "r",
      "\"", ">">>
AnchorClose == <<"<", "/", "a", ">">>

replacer(text, match) ==
    LET label == Group1(text, match)
        url == Group2(text, match)
    IN  AnchorOpen \o url \o AnchorAttrs \o label \o AnchorClose

\* pattern.sub(replacer, text) from pos on: non-overlapping matches, left to
\* right, the text between them copied
RECURSIVE pattern_sub(_, _)
pattern_sub(text, pos) ==
    LET match == SearchFrom(text, pos)
    IN  IF match.start = 0 THEN SubSeq(text, pos, Len(text))
        ELSE SubSeq(text, pos, match.start - 1)
               \o replacer(text, match)
               \o pattern_sub(text, match.stop + 1)

fix_html_links(html) == pattern_sub(html, 1)

\* needle in text
Contains(text, needle) ==
    \E at \in 1..Len(text) : HasAt(text, at, needle)

looks_like_html(text) ==
    \/ Contains(text, <<"<", "a">>)
    \/ Contains(text, <<"<", "p">>)
    \/ Contains(text, <<"<", "l", "i">>)

\* fix_string returning right after fix_html_links for HTML
fix_string_html_only(text) ==
    IF looks_like_html(text) THEN fix_html_links(text)
    ELSE extract_plain_url(text)

fix_string(text) ==
    LET html == IF looks_like_html(text) THEN fix_html_links(text) ELSE text
    IN  IF pattern_search(html).start # 0
        THEN extract_plain_url(html)
        ELSE html

\* fix_value rebuilding a dict as {fix_value(k): fix_value(v)}
RECURSIVE fix_value_rewriting_keys(_)
fix_value_rewriting_keys(v) ==
    IF v.kind = "str" THEN JStr(fix_string(v.chars))
    ELSE IF v.kind = "list"
        THEN JList([i \in 1..Len(v.items) |->
                        fix_value_rewriting_keys(v.items[i])])
    ELSE IF v.kind = "dict"
        THEN JDict([i \in 1..Len(v.keys) |-> fix_string(v.keys[i])],
                   [i \in 1..Len(v.vals) |->
                        fix_value_rewriting_keys(v.vals[i])])
    ELSE v

RECURSIVE fix_value(_)
fix_value(v) ==
    IF v.kind = "str" THEN JStr(fix_string(v.chars))
    ELSE IF v.kind = "list"
        THEN JList([i \in 1..Len(v.items) |-> fix_value(v.items[i])])
    ELSE IF v.kind = "dict"
        THEN JDict(v.keys, [i \in 1..Len(v.vals) |-> fix_value(v.vals[i])])
    ELSE v

RECURSIVE contains_markdown(_)
contains_markdown(v) ==
    IF v.kind = "str" THEN pattern_search(v.chars).start # 0
    ELSE IF v.kind = "list"
        THEN \E i \in 1..Len(v.items) : contains_markdown(v.items[i])
    ELSE IF v.kind = "dict"
        THEN \E i \in 1..Len(v.vals) : contains_markdown(v.vals[i])
    ELSE FALSE

\* json.dumps(fixed_payload, ensure_ascii=False) succeeds: every value built
\* from str, int, bool, None, list and dict with str keys serializes
RECURSIVE json_dumps_ok(_)
json_dumps_ok(v) ==
    IF v.kind = "list"
        THEN \A i \in 1..Len(v.items) : json_dumps_ok(v.items[i])
    ELSE IF v.kind = "dict"
        THEN \A i \in 1..Len(v.vals) : json_dumps_ok(v.vals[i])
    ELSE v.kind \in {"str", "num", "bool", "null"}

-----------------------------------------------------------------------------
(* API endpoint *)

KeyJobs == <<"j", "o", "b", "s">>

\* key in d
HasKey(d, key) == \E i \in 1..Len(d.keys) : d.keys[i] = key

\* d[key]
DictGet(d, key) == d.vals[CHOOSE i \in 1..Len(d.keys) : d.keys[i] = key]

NoBody == [kind |-> "none"]

HTTPException(status_code, detail) ==
    [status_code |-> status_code, detail |-> detail, body |-> NoBody]

DetailMissingJobs == "Invalid JSON: missing 'jobs' array"
DetailMarkdown == "Markdown URL detected after auto-fix. JSON rejected."
DetailSerialization == "JSON serialization failed"

\* the structure check without the isinstance test
jobs_is_array_present_only(payload) == HasKey(payload, KeyJobs)

jobs_is_array(payload) ==
    HasKey(payload, KeyJobs) /\ DictGet(payload, KeyJobs).kind = "list"

validate_and_fix_job_json(payload) ==
    IF ~jobs_is_array(payload)
        THEN HTTPException(422, DetailMissingJobs)
    ELSE LET fixed_payload == fix_value(payload) IN
         IF contains_markdown(fixed_payload)
            THEN HTTPException(422, DetailMarkdown)
         ELSE IF ~json_dumps_ok(fixed_payload)
            THEN HTTPException(422, DetailSerialization)
         ELSE [status_code |-> 200, detail |-> "",
               body |-> [status |-> "ok", fixed_json |-> fixed_payload]]

-----------------------------------------------------------------------------
(* Inputs: the strings, nested values and payloads a request may carry *)

MaxChunks == 5
MaxWords == 4
MaxDepth == 2
MaxJobs == 1

UrlU == <<"h", "t", "t", "p", ":", "/", "/", "u">>
UrlV == <<"h", "t", "t", "p", "s", ":", "/", "/", "v">>
TailU == <<"]", "(">> \o UrlU \o <<")">>
TailV == <<"]", "(">> \o UrlV \o <<")">>

\* The pieces strings are built from: an opening bracket, a plain
\* character, an HTML marker and the two link tails "](http://u)" and
\* "](https://v)".
Pieces == {<<"[">>, <<"x">>, <<"<", "p">>, TailU, TailV}

RECURSIVE Texts(_)
Texts(n) ==
    IF n = 0 THEN {<<>>}
    ELSE Texts(n - 1) \cup {t \o p : t \in Texts(n - 1), p \in Pieces}

UrlA ==
    <<"h", "t", "t", "p", "s", ":", "/", "/", "x", ".", "t", "e", "s", "t",
      "/", "a">>
TextApply == <<"[", "A", "p", "p", "l", "y", "]", "(">> \o UrlA \o <<")">>
TextAngle == <<"<">> \o UrlA \o <<">">>
TextHref == <<"h", "r", "e", "f", "=", "\"", "[">> \o UrlA \o <<"]", "(">> \o UrlA \o <<")", "\"">>
TextHrefRepaired == <<"h", "r", "e", "f", "=", "\"">> \o UrlA \o <<"\"">>
TextAnchorHref == <<"<", "a", " ">> \o TextHref \o <<">", "x", "<", "/", "a", ">">>
TextAnchorHrefRepaired == <<"<", "a", " ">> \o TextHrefRepaired \o <<">", "x", "<", "/", "a", ">">>
TextNoLinks ==
    <<"n", "o", " ", "l", "i", "n", "k", "s", " ", "h", "e", "r", "e", ",",
      " ", "o", "k">>
TextListItem == <<"<", "l", "i", ">", "[", "x">> \o TailV
TextOldAnchor == <<"<", "a", ">", "x">>

ExampleTexts ==
    {TextApply, TextAngle, TextHref, TextAnchorHref, TextNoLinks,
     TextListItem, TextOldAnchor}

\* The words running text is built from: a plain character, an HTML
\* marker and the two whole links "[x](http://u)" and "[x](https://v)".
Words == {<<"x">>, <<"<", "p">>, <<"[", "x">> \o TailU, <<"[", "x">> \o TailV}

RECURSIVE Phrases(_)
Phrases(n) ==
    IF n = 0 THEN {<<>>}
    ELSE Phrases(n - 1) \cup {t \o w : t \in Phrases(n - 1), w \in Words}

StringInputs ==
    {JStr(t) : t \in Texts(MaxChunks) \cup Phrases(MaxWords) \cup ExampleTexts}

\* Nested values: leaves of every kind, wrapped MaxDepth times in lists and
\* dicts beside a sibling.  One dict key is itself a Markdown link.
TextLink == <<"[", "x">> \o TailV
LeafTexts ==
    {TextLink, <<"x">>, <<"x">> \o TextLink \o <<"x">>,
     <<"<", "p">> \o TextLink}
Leaves == {JStr(t) : t \in LeafTexts} \cup {JNum(7), JBool(TRUE), JNull}
Siblings == {JStr(TextLink), JNum(7)}
KeyPlain == <<"k">>
KeyLink == <<"[", "k">> \o TailU

RECURSIVE NestedValues(_)
NestedValues(d) ==
    IF d = 0 THEN Leaves
    ELSE LET inner == NestedValues(d - 1) IN
         inner
           \cup {JList(<<>>), JDict(<<>>, <<>>)}
           \cup {JList(<<a>>) : a \in inner}
           \cup {JList(<<a, b>>) : a \in inner, b \in Siblings}
           \cup {JDict(<<KeyLink>>, <<a>>) : a \in inner}
           \cup {JDict(<<KeyPlain, KeyLink>>, <<b, a>>) :
                    a \in inner, b \in Siblings}

\* Payloads: the Document of the job-listing import, its jobs field an
\* array of up to MaxJobs listings, missing, or of another type.
KeyCategorySlug ==
    <<"c", "a", "t", "e", "g", "o", "r", "y", "_", "s", "l", "u", "g">>
KeyGroupSlug == <<"g", "r", "o", "u", "p", "_", "s", "l", "u", "g">>
KeyZh == <<"z", "h">>
KeyEn == <<"e", "n">>
KeySlug == <<"s", "l", "u", "g">>
KeyAcf == <<"a", "c", "f">>
KeyJobLink == <<"j", "o", "b", "_", "l", "i", "n", "k">>
KeyNote == <<"n", "o", "t", "e">>
TextJoblisting == <<"j", "o", "b", "l", "i", "s", "t", "i", "n", "g">>

JobLinks ==
    {UrlV, TextLink, <<"[", "<", "p">> \o TailV, <<"x">> \o TextLink}

Variant(slug, job_link) ==
    JDict(<<KeySlug, KeyAcf>>,
          <<JStr(slug), JDict(<<KeyJobLink>>, <<JStr(job_link)>>)>>)

JobListing(zh_link, en_link) ==
    JDict(<<KeyGroupSlug, KeyZh, KeyEn>>,
          <<JStr(<<"g">>), Variant(<<"z">>, zh_link),
            Variant(<<"e">>, en_link)>>)

JobListings == {JobListing(z, e) : z \in JobLinks, e \in JobLinks}

RECURSIVE JobArrays(_)
JobArrays(n) ==
    IF n = 0 THEN {<<>>}
    ELSE JobArrays(n - 1)
           \cup {Append(js, j) : js \in JobArrays(n - 1), j \in JobListings}

NonArrayJobs ==
    {JStr(TextLink), JStr(<<"x">>), JNum(7), JNull, JBool(TRUE),
     JDict(<<KeyNote>>, <<JStr(TextLink)>>)}

Payloads ==
    {JDict(<<KeyCategorySlug, KeyJobs>>, <<JStr(TextJoblisting), JList(js)>>) :
        js \in JobArrays(MaxJobs)}
      \cup {JDict(<<KeyJobs, KeyNote>>, <<JList(js), JStr(n)>>) :
              js \in JobArrays(MaxJobs), n \in {TextLink, <<"x">>}}
      \cup {JDict(<<KeyCategorySlug, KeyJobs>>, <<JStr(TextJoblisting), j>>) :
              j \in NonArrayJobs}
      \cup {JDict(<<KeyCategorySlug, KeyNote>>, <<JStr(TextJoblisting), JStr(n)>>) :
              n \in {TextLink, <<"x">>}}

Inputs == StringInputs \cup NestedValues(MaxDepth) \cup Payloads

-----------------------------------------------------------------------------
(* The calls *)

NotYet == [kind |-> "none"]

Init ==
    /\ input \in Inputs
    /\ pc = "start"
    /\ fixed = NotYet
    /\ refixed = NotYet
    /\ residual = FALSE
    /\ response = NotYet

\* fix_value(value)
CallFixValue ==
    /\ pc = "start"
    /\ fixed' = fix_value(input)
    /\ pc' = "fixed"
    /\ UNCHANGED <<input, refixed, residual, response>>

\* fix_value applied to its own result
CallFixValueAgain ==
    /\ pc = "fixed"
    /\ refixed' = fix_value(fixed)
    /\ pc' = "refixed"
    /\ UNCHANGED <<input, fixed, residual, response>>

\* contains_markdown(fixed_payload)
CallContainsMarkdown ==
    /\ pc = "fixed"
    /\ residual' = contains_markdown(fixed)
    /\ pc' = "scanned"
    /\ UNCHANGED <<input, fixed, refixed, response>>

\* POST /validate-job-json: the framework hands the handler a dict
PostValidateJobJson ==
    /\ pc = "start"
    /\ input.kind = "dict"
    /\ response' = validate_and_fix_job_json(input)
    /\ pc' = "responded"
    /\ UNCHANGED <<input, fixed, refixed, residual>>

Next ==
    \/ CallFixValue
    \/ CallFixValueAgain
    \/ CallContainsMarkdown
    \/ PostValidateJobJson

Spec == Init /\ [][Next]_vars

-----------------------------------------------------------------------------
(* What the specification calls a Markdown link, stated over positions *)

\* text[i..e] is one span [label](http://url) or [label](https://url): the
\* label and the URL body are non-empty, the label holds no "]" and the URL
\* no ")"
IsLinkSpan(text, i, e) ==
    /\ 1 <= i /\ e <= Len(text)
    /\ text[i] = "["
    /\ text[e] = ")"
    /\ \E c \in (i + 2)..(e - 2) :
          /\ text[c] = "]"
          /\ text[c + 1] = "("
          /\ \A k \in (i + 1)..(c - 1) : text[k] # "]"
          /\ \A k \in (c + 2)..(e - 1) : text[k] # ")"
          /\ \/ HasAt(text, c + 2, SchemeHttp) /\ e > c + 2 + Len(SchemeHttp)
             \/ HasAt(text, c + 2, SchemeHttps) /\ e > c + 2 + Len(SchemeHttps)

LinkStarts(text) ==
    {i \in 1..Len(text) : \E e \in i..Len(text) : IsLinkSpan(text, i, e)}

HasLinkSpan(text) == LinkStarts(text) # {}

\* the URL of the link span text[i..e]
SpanUrl(text, i, e) ==
    LET c == CHOOSE c \in i..e :
                 text[c] = "]" /\ \A k \in i..(c - 1) : text[k] # "]"
    IN  SubSeq(text, c + 2, e - 1)

\* text from pos on with every link span, taken left to right, replaced by
\* its URL
RECURSIVE FlattenSpans(_, _)
FlattenSpans(text, pos) ==
    LET starts == {i \in LinkStarts(text) : i >= pos} IN
    IF starts = {} THEN SubSeq(text, pos, Len(text))
    ELSE LET i == CHOOSE i \in starts : \A j \in starts : i <= j
             e == CHOOSE e \in i..Len(text) : IsLinkSpan(text, i, e)
         IN  SubSeq(text, pos, i - 1) \o SpanUrl(text, i, e)
               \o FlattenSpans(text, e + 1)

\* the label of the link span text[i..e]
SpanLabel(text, i, e) ==
    LET c == CHOOSE c \in i..e :
                 text[c] = "]" /\ \A k \in i..(c - 1) : text[k] # "]"
    IN  SubSeq(text, i + 1, c - 1)

\* text from pos on with every link span, taken left to right, replaced by
\* <a href="url" target="_blank" rel="noopener noreferrer">label</a>
RECURSIVE WrapSpans(_, _)
WrapSpans(text, pos) ==
    LET starts == {i \in LinkStarts(text) : i >= pos} IN
    IF starts = {} THEN SubSeq(text, pos, Len(text))
    ELSE LET i == CHOOSE i \in starts : \A j \in starts : i <= j
             e == CHOOSE e \in i..Len(text) : IsLinkSpan(text, i, e)
         IN  SubSeq(text, pos, i - 1)
               \o AnchorOpen \o SpanUrl(text, i, e) \o AnchorAttrs
               \o SpanLabel(text, i, e) \o AnchorClose
               \o WrapSpans(text, e + 1)

\* the whole text is one link span
IsExactLink(text) == Len(text) > 0 /\ IsLinkSpan(text, 1, Len(text))


-----------------------------------------------------------------------------
(* C1 *)

\* C1: normalization is idempotent: for every string s,
\* fix_value(fix_value(s)) = fix_value(s), whether s looks like HTML, holds
\* several or nested links, or none.
C1_Idempotent ==
    (pc = "refixed" /\ input.kind = "str") => refixed = fixed

\* text holds two link spans, the second after the end of the first
TwoLinksInARow(text) ==
    \E i \in LinkStarts(text) : \E j \in LinkStarts(text) :
        \E e \in i..(j - 1) : IsLinkSpan(text, i, e)

\* a string with two links one after the other, fixed twice
C1_Witness ==
    /\ pc = "refixed"
    /\ input.kind = "str"
    /\ TwoLinksInARow(input.chars)
    /\ fixed # input
    /\ refixed = fixed

(* C2 *)

\* C2: for every string that does not look like HTML, fix_value returns the
\* string with every span [label](https://url) replaced by its URL and every
\* character outside the spans unchanged.  (Strings holding an http:// link
\* tail are left out, so that every span is an https one.)
C2_FlattenEverySpan ==
    (/\ pc = "fixed"
     /\ input.kind = "str"
     /\ ~looks_like_html(input.chars)
     /\ ~Contains(input.chars, <<"]", "(">> \o SchemeHttp))
        => fixed = JStr(FlattenSpans(input.chars, 1))

(* C3 *)

\* text[i..e] is a span <http://url> or <https://url>
IsAngleSpan(text, i, e) ==
    /\ 1 <= i /\ e <= Len(text)
    /\ text[i] = "<"
    /\ text[e] = ">"
    /\ \A k \in (i + 1)..(e - 1) : text[k] # ">"
    /\ \/ HasAt(text, i + 1, SchemeHttp) /\ e > i + 1 + Len(SchemeHttp)
       \/ HasAt(text, i + 1, SchemeHttps) /\ e > i + 1 + Len(SchemeHttps)

HasAngleSpan(text) ==
    \E i \in 1..Len(text) : \E e \in i..Len(text) : IsAngleSpan(text, i, e)

\* C3: a span <https://url> is replaced by the bare URL; in particular
\* fix_value("<https://x.test/a>") = "https://x.test/a".
C3_AngleBracketFlattened ==
    (pc = "fixed" /\ input.kind = "str" /\ HasAngleSpan(input.chars))
        => /\ ~HasAngleSpan(fixed.chars)
           /\ input = JStr(TextAngle) => fixed = JStr(UrlA)

(* C4 *)

\* C4: a span href="[URL](URL)" with the same URL twice is rewritten to
\* href="URL", the wrapper kept; in particular
\* fix_value('href="[https://x.test/a](https://x.test/a)"') is
\* 'href="https://x.test/a"', and likewise inside an anchor tag.
C4_AnchorRepaired ==
    pc = "fixed"
        => /\ input = JStr(TextHref) => fixed = JStr(TextHrefRepaired)
           /\ input = JStr(TextAnchorHref)
                => fixed = JStr(TextAnchorHrefRepaired)

(* C5 *)

\* C5: in a string that looks like HTML every Markdown link becomes an
\* anchor tag and the text outside the links is unchanged; in a string that
\* does not, fix_value introduces no anchor tag.
C5_HtmlLinksWrapped ==
    (pc = "fixed" /\ input.kind = "str")
        => IF looks_like_html(input.chars)
              THEN fixed = JStr(WrapSpans(input.chars, 1))
              ELSE Contains(fixed.chars, AnchorOpen)
                     => Contains(input.chars, AnchorOpen)

(* C6 *)

\* a and b have the same shape: the same kind, dicts the same keys in the
\* same order, lists the same length, leaves other than strings equal
RECURSIVE SameShape(_, _)
SameShape(a, b) ==
    /\ a.kind = b.kind
    /\ IF a.kind = "str" THEN TRUE
       ELSE IF a.kind = "list"
          THEN /\ Len(a.items) = Len(b.items)
               /\ \A i \in 1..Len(a.items) : SameShape(a.items[i], b.items[i])
       ELSE IF a.kind = "dict"
          THEN /\ a.keys = b.keys
               /\ Len(a.vals) = Len(b.vals)
               /\ \A i \in 1..Len(a.vals) : SameShape(a.vals[i], b.vals[i])
       ELSE a = b

\* C6: fix_value returns a value of the same shape: every dict keeps its
\* keys (a key is never rewritten, even one that is a Markdown link), every
\* list its length and order, every number, boolean and null its value;
\* only string leaves may differ.
C6_ShapePreserved ==
    pc = "fixed" => SameShape(input, fixed)

\* a dict under a Markdown-link key, holding a list, with a leaf rewritten
C6_Witness ==
    /\ pc = "fixed"
    /\ input.kind = "dict"
    /\ HasKey(input, KeyLink)
    /\ DictGet(input, KeyLink).kind = "list"
    /\ Len(DictGet(input, KeyLink).items) = 2
    /\ fixed # input
    /\ HasKey(fixed, KeyLink)

(* C7 *)

\* C7: a string with no Markdown link is returned unchanged, whether or not
\* it looks like HTML, the empty string included.
C7_NoLinkPassthrough ==
    (pc = "fixed" /\ input.kind = "str" /\ ~HasLinkSpan(input.chars))
        => fixed = input

\* an HTML-looking string with brackets and a link tail but no link
C7_Witness ==
    /\ pc = "fixed"
    /\ input.kind = "str"
    /\ looks_like_html(input.chars)
    /\ Contains(input.chars, <<"[">> \o TailU)
    /\ ~HasLinkSpan(input.chars)
    /\ fixed = input

(* C8 *)

JobsMissingOrNotArray(p) ==
    ~\E i \in 1..Len(p.keys) : p.keys[i] = KeyJobs /\ p.vals[i].kind = "list"

\* C8: when jobs is missing or is not an array the request ends with the
\* one diagnostic about jobs: nothing is fixed and no document is returned.
C8_JobsShortCircuit ==
    (pc = "responded" /\ JobsMissingOrNotArray(input))
        => response = [status_code |-> 422, detail |-> DetailMissingJobs,
                       body |-> NoBody]

\* jobs is a string that holds a Markdown link
C8_Witness ==
    /\ pc = "responded"
    /\ HasKey(input, KeyJobs)
    /\ DictGet(input, KeyJobs) = JStr(TextLink)
    /\ response.status_code = 422

(* C9 *)

JobLinkOf(job, lang) ==
    DictGet(DictGet(DictGet(job, lang), KeyAcf), KeyJobLink).chars

JobLinksOf(p) ==
    LET jobs == DictGet(p, KeyJobs).items
    IN  {JobLinkOf(jobs[i], lang) : i \in 1..Len(jobs), lang \in {KeyZh, KeyEn}}

\* a joblisting document whose job_links are bare or exactly one link, one
\* of them at least a link, and no other field
LinkDefectOnly(p) ==
    /\ p.kind = "dict"
    /\ p.keys = <<KeyCategorySlug, KeyJobs>>
    /\ p.vals[1] = JStr(TextJoblisting)
    /\ p.vals[2].kind = "list"
    /\ \A l \in JobLinksOf(p) : IsExactLink(l) \/ ~HasLinkSpan(l)
    /\ \E l \in JobLinksOf(p) : IsExactLink(l)

\* v with every string that is exactly one link replaced by the link's URL
RECURSIVE WithBareLinks(_)
WithBareLinks(v) ==
    IF v.kind = "str"
        THEN IF IsExactLink(v.chars)
                THEN JStr(SpanUrl(v.chars, 1, Len(v.chars)))
                ELSE v
    ELSE IF v.kind = "list"
        THEN JList([i \in 1..Len(v.items) |-> WithBareLinks(v.items[i])])
    ELSE IF v.kind = "dict"
        THEN JDict(v.keys, [i \in 1..Len(v.vals) |-> WithBareLinks(v.vals[i])])
    ELSE v

OkWithBareLinks(p) ==
    [status_code |-> 200, detail |-> "",
     body |-> [status |-> "ok", fixed_json |-> WithBareLinks(p)]]

\* C9 as written: a joblisting document whose only defect is a job_link
\* that is exactly one Markdown link is answered ok, the job_link the bare
\* URL and every other value as in the input.
C9_EndToEndAsWritten ==
    (pc = "responded" /\ LinkDefectOnly(input))
        => response = OkWithBareLinks(input)

\* C9 amended: the same, for job_links that do not look like HTML.
C9_EndToEnd ==
    (/\ pc = "responded"
     /\ LinkDefectOnly(input)
     /\ \A l \in JobLinksOf(input) : ~looks_like_html(l))
        => response = OkWithBareLinks(input)

\* a listing whose zh job_link is a link and whose en job_link is bare
C9_Witness ==
    /\ pc = "responded"
    /\ LinkDefectOnly(input)
    /\ \A l \in JobLinksOf(input) : ~looks_like_html(l)
    /\ \E l \in JobLinksOf(input) : ~HasLinkSpan(l)
    /\ response.status_code = 200
    /\ response.body.fixed_json # input

(* C10 *)

\* C10: no Markdown link survives the fix: contains_markdown(fix_value(v))
\* is false for every value, and the endpoint never rejects a payload for
\* Markdown left after the fix.
C10_NoMarkdownSurvives ==
    /\ pc = "scanned" => residual = FALSE
    /\ pc = "responded" => response.detail # DetailMarkdown

\* an HTML-looking string whose anchors leave a link behind, scanned clean
C10_Witness ==
    /\ pc = "scanned"
    /\ input.kind = "str"
    /\ looks_like_html(input.chars)
    /\ HasLinkSpan(fix_html_links(input.chars))
    /\ residual = FALSE


====
